---------------------------- MODULE Spec2Model ----------------------------
(***************************************************************************)
(* BugHunterSuite: the scan orchestrator (performSecurityCheck, in its     *)
(* 4-probe legacy and its 13-probe extended version), the POST /api/scans  *)
(* route that starts a scan for a job record, and the in-memory job store. *)
(*                                                                         *)
(* The program runs on one JavaScript event loop.  A handler runs to       *)
(* completion; promise continuations are jobs of a FIFO microtask queue    *)
(* which is drained before the next I/O event (a probe's network result)   *)
(* is delivered.  The model keeps that queue explicitly: `microtasks'.     *)
(*                                                                         *)
(* Spec is the program: one POST /api/scans and the scan it starts.        *)
(* ProbeSpec calls one probe function, on one verdict slot, against one    *)
(* target, up to MaxRuns times in a row.  TwoScanSpec runs two scans, for  *)
(* two jobs, on the one event loop.  StoreSpec calls the methods of the    *)
(* job store and the two GET routes directly.                              *)
(***************************************************************************)
EXTENDS Integers, Sequences, FiniteSets, TLC

VARIABLES
    profile,         \* which security-scanner is deployed: "legacy" | "extended"
    routeVersion,    \* which POST /api/scans rejection handler is deployed
    server,          \* how the target answers when a request gets through
    httpStatus,      \* status sent for the POST (0: no request handled yet)
    scans,           \* MemStorage.scans: id -> job record
    currentScanId,   \* MemStorage.currentScanId
    jobId,           \* scan.id captured by the route's closures (0: none)
    scanPc,          \* performSecurityCheck: "idle" | "probing" | "returned" | "rejected"
    url,             \* the URL parsed by performSecurityCheck
    results,         \* the aggregate being filled
    completedChecks, \* the extended scanner's counter
    probeIdx,        \* position (1..N) of the probe in flight, 0 if none
    scanError,       \* message of the error performSecurityCheck rejected with
    microtasks,      \* pending promise jobs, FIFO
    unhandled,       \* an exception escaped the route's rejection handler
    invoked,         \* log: probes invoked, in order
    raised,          \* log: probes whose failure the orchestrator caught
    progressCalls,   \* log: updateProgress calls, [value, settled]
    netFailures,     \* number of probes whose network calls failed
    settled,         \* log: probes whose promise settled, in order
    responded,       \* https.request probes whose response callback ran
    lateFired,       \* requests that emitted 'error' after their response
    hProbe,          \* ProbeSpec: the probe function called
    hUrl,            \* ProbeSpec: its url argument
    hNet,            \* ProbeSpec: whether its network calls get through
    hServer,         \* ProbeSpec: the target
    hSlot,           \* ProbeSpec: its result argument, one object for all calls
    hVerdicts,       \* ProbeSpec: log of the slot after each call
    hPc,             \* ProbeSpec: "idle" | "awaiting" (the probe is at its first await)
    posted,          \* log: the POST request handled, [authenticated, userId, body]
    tasks,           \* TwoScanSpec: job id -> the state of its performSecurityCheck
    response         \* StoreSpec: the response to the GET request handled

harness == <<hProbe, hUrl, hNet, hServer, hSlot, hVerdicts, hPc>>

\* What the program of Spec leaves alone.
aside == <<harness, tasks, response>>

\* The variables of the program of Spec.
program == <<profile, routeVersion, server, httpStatus, scans, currentScanId, jobId,
             scanPc, url, results, completedChecks, probeIdx, scanError, microtasks,
             unhandled, invoked, raised, progressCalls, netFailures, settled,
             responded, lateFired, posted>>

vars == <<profile, routeVersion, server, httpStatus, scans, currentScanId, jobId,
          scanPc, url, results, completedChecks, probeIdx, scanError, microtasks,
          unhandled, invoked, raised, progressCalls, netFailures, settled, responded,
          lateFired, hProbe, hUrl, hNet, hServer, hSlot, hVerdicts, hPc, posted,
          tasks, response>>

-----------------------------------------------------------------------------
(* Bounds *)

\* At most this many probes of one scan have their network calls fail.
MaxNetFailures == 1

\* ProbeSpec calls its probe at most this many times.
MaxRuns == 2

-----------------------------------------------------------------------------
(* Target strings.  A string is kept as what `new URL' makes of it: whether *)
(* it parses, and the protocol (scheme plus colon) as a character sequence. *)

HttpsTarget == [parses |-> TRUE,  protocol |-> <<"h","t","t","p","s",":">>]
HttpTarget == [parses |-> TRUE,  protocol |-> <<"h","t","t","p",":">>]
HttpxTarget == [parses |-> TRUE,  protocol |-> <<"h","t","t","p","x",":">>]
FtpTarget == [parses |-> TRUE,  protocol |-> <<"f","t","p",":">>]
GarbageTarget == [parses |-> FALSE, protocol |-> <<>>]

Targets == {HttpsTarget, HttpTarget, HttpxTarget, FtpTarget, GarbageTarget}

HTTP_ == <<"h","t","t","p">>
HTTP_COLON == <<"h","t","t","p",":">>
HTTPS_COLON == <<"h","t","t","p","s",":">>

\* String.prototype.startsWith
startsWith(s, prefix) ==
    /\ Len(s) >= Len(prefix)
    /\ SubSeq(s, 1, Len(prefix)) = prefix

\* The scheme is http or https (what the error message of the scanner names).
IsHttpScheme(t) == t.parses /\ t.protocol \in {HTTP_COLON, HTTPS_COLON}

\* urlSchema = z.string().url(): the string must parse as a URL.
\* A urlSchema that accepts every string.
urlSchemaAcceptsAll(t) == TRUE

urlSchema(t) == t.parses

\* insertScanSchema.parse(req.body): the body must carry a string `url'.
NoUrlBody == [hasUrl |-> FALSE, url |-> GarbageTarget]
Bodies == {[hasUrl |-> TRUE, url |-> t] : t \in Targets} \cup {NoUrlBody}
insertScanSchema(body) == body.hasUrl

Users == {1, 2}

-----------------------------------------------------------------------------
(* Errors *)

InvalidUrlMsg == "Invalid URL"
InvalidProtocolMsg == "Invalid URL protocol. Only HTTP/HTTPS URLs are supported."
ProtocolNotSupportedMsg == "Protocol not supported. Expected https:"
FetchFailedMsg == "fetch failed"
LateErrorMsg == "socket hang up"
NoError == "none"

\* The first two statements of performSecurityCheck: `new URL(targetUrl)'
\* throws on a string that does not parse; then the protocol test.
\* NoError when the target passes.
ValidateTarget(t) ==
    IF ~t.parses THEN InvalidUrlMsg
    ELSE IF ~startsWith(t.protocol, HTTP_) THEN InvalidProtocolMsg
    ELSE NoError

-----------------------------------------------------------------------------
(* What the target answers.  A server kind fixes the response to a request  *)
(* for a path; whether a request gets through at all is decided per probe.  *)
(* A header value "" is an absent header (headers.get gives null).  A body  *)
(* is the set of texts it contains; a Set-Cookie or Server-Timing value is  *)
(* the set of tokens it contains (String.prototype.includes on each).       *)
(* Three servers are named; a "custom" server carries its answers itself:   *)
(* the headers it sends, per path the status and the body, the paths whose  *)
(* requests fail at the network level, the negotiated TLS protocol.         *)

ServerKinds == {[name |-> "hardened"], [name |-> "sloppy"], [name |-> "partial"]}

Custom(headers, status, body, down, protocol) ==
    [name |-> "custom", headers |-> headers, status |-> status, body |-> body,
     down |-> down, protocol |-> protocol]

XssPayload1 == <<"<","s","c","r","i","p","t",">","a","l","e","r","t","(","1",")","<","/","s","c","r","i","p","t",">">>
XssPayload2 == <<"\"",">","<","s","c","r","i","p","t",">","a","l","e","r","t","(","1",")","<","/","s","c","r","i","p","t",">">>
XssPayload3 == <<"\"",">","<","i","m","g"," ","s","r","c","=","x"," ","o","n","e","r","r","o","r","=","a","l","e","r","t","(","1",")",">">>

\* Texts a response body may contain, as character sequences.
TextSqlSyntax == <<"S","Q","L"," ","s","y","n","t","a","x">>
TextMySqlError == <<"M","y","S","Q","L"," ","E","r","r","o","r">>
TextOra == <<"O","R","A","-","0","0","9","3","3">>
TextWelcome == <<"W","e","l","c","o","m","e">>
TextPostgres == <<"P","o","s","t","g","r","e","S","Q","L"," ","e","r","r","o","r">>
TextSqlServer == <<"S","Q","L"," ","S","e","r","v","e","r"," ","e","r","r","o","r">>

\* checkSQLInjection's sqlErrorPatterns
PatSqlSyntax == <<"s","q","l"," ","s","y","n","t","a","x">>
PatMysqlError == <<"m","y","s","q","l"," ","e","r","r","o","r">>
PatPostgresqlError == <<"p","o","s","t","g","r","e","s","q","l"," ","e","r","r","o","r">>
PatOra == <<"O","R","A","-">>
PatSqlServerError == <<"S","Q","L"," ","S","e","r","v","e","r"," ","e","r","r","o","r">>

HardenedHeaders(h) ==
    CASE h = "strict-transport-security" -> "max-age=31536000"
      [] h = "x-content-type-options" -> "nosniff"
      [] h = "x-frame-options" -> "DENY"
      [] h = "content-security-policy" -> "default-src 'self'"
      [] h = "referrer-policy" -> "strict-origin-when-cross-origin"
      [] h = "permissions-policy" -> "geolocation=()"
      [] h = "cross-origin-opener-policy" -> "same-origin"
      [] h = "x-ratelimit-limit" -> "100"
      [] h = "x-request-id" -> "req-1"
      [] OTHER -> ""

PartialHeaders(h) ==
    CASE h = "strict-transport-security" -> "max-age=31536000"
      [] h = "x-content-type-options" -> "nosniff"
      [] h = "x-frame-options" -> "SAMEORIGIN"
      [] h = "content-security-policy" -> "default-src 'self'"
      [] h = "x-request-id" -> "req-1"
      [] OTHER -> ""

SloppyHeaders(h) == ""

\* The Server response header, as a character sequence (<<>>: absent).
ServerHeader(kind) ==
    CASE kind.name \in {"hardened", "custom"} -> <<>>
      [] kind.name = "partial" -> <<"n","g","i","n","x","/","1",".","1","8",".","0">>
      [] OTHER -> <<"A","p","a","c","h","e","/","2",".","4",".","2","9"," ","P","H","P","/","5",".","6">>

\* failed: the request for the path does not get through (fetch rejects).
Respond(kind, path) ==
    CASE kind.name = "hardened" ->
           [status |-> IF path = "/" THEN 200 ELSE 403,
            protocol |-> "TLSv1.3",
            hasCookie |-> TRUE,
            cookie |-> {"Secure", "HttpOnly", "SameSite"},
            serverTiming |-> {"tls=1.3"},
            body |-> {TextWelcome},
            scriptTags |-> <<TRUE>>,
            failed |-> FALSE]
      [] kind.name = "partial" ->
           [status |-> IF path \in {"/", "/admin", "/api/fetch"} THEN 200
                       ELSE IF path \in {"/api/users", "/api/proxy"} THEN 401
                       ELSE 400,
            protocol |-> "TLSv1.2",
            hasCookie |-> TRUE,
            cookie |-> {"Secure", "HttpOnly"},
            serverTiming |-> {},
            body |-> IF path = "/login" THEN {TextSqlSyntax} ELSE {TextWelcome},
            scriptTags |-> <<TRUE, FALSE>>,
            failed |-> FALSE]
      [] kind.name = "custom" ->
           [status |-> IF path \in DOMAIN kind.status THEN kind.status[path] ELSE 200,
            protocol |-> kind.protocol,
            hasCookie |-> FALSE,
            cookie |-> {},
            serverTiming |-> {},
            body |-> IF path \in DOMAIN kind.body THEN kind.body[path] ELSE {TextWelcome},
            scriptTags |-> <<>>,
            failed |-> path \in kind.down]
      [] OTHER ->
           [status |-> 200,
            protocol |-> "undefined",
            hasCookie |-> FALSE,
            cookie |-> {},
            serverTiming |-> {},
            body |-> {XssPayload1, TextMySqlError, TextOra},
            scriptTags |-> <<FALSE>>,
            failed |-> FALSE]

Header(kind, h) ==
    CASE kind.name = "hardened" -> HardenedHeaders(h)
      [] kind.name = "partial" -> PartialHeaders(h)
      [] kind.name = "custom" -> IF h \in kind.headers THEN "present" ELSE ""
      [] OTHER -> SloppyHeaders(h)

\* JavaScript property assignment obj.field = value.
Put(obj, field, value) ==
    [f \in (DOMAIN obj) \cup {field} |-> IF f = field THEN value ELSE obj[f]]

\* What a probe hands back to the orchestrator's try block.
Settled(slot) == [raised |-> FALSE, message |-> NoError, slot |-> slot]
Raised(slot, msg) == [raised |-> TRUE, message |-> msg, slot |-> slot]

\* fetch() supports only http: and https: URLs; any other scheme rejects.
FetchFails(u, net) == net = "fail" \/ ~(u.protocol \in {HTTP_COLON, HTTPS_COLON})

\* String.prototype.toLowerCase, on character sequences
LowerChar(c) ==
    CASE c = "A" -> "a" [] c = "B" -> "b" [] c = "C" -> "c" [] c = "D" -> "d"
      [] c = "E" -> "e" [] c = "F" -> "f" [] c = "G" -> "g" [] c = "H" -> "h"
      [] c = "I" -> "i" [] c = "J" -> "j" [] c = "K" -> "k" [] c = "L" -> "l"
      [] c = "M" -> "m" [] c = "N" -> "n" [] c = "O" -> "o" [] c = "P" -> "p"
      [] c = "Q" -> "q" [] c = "R" -> "r" [] c = "S" -> "s" [] c = "T" -> "t"
      [] c = "U" -> "u" [] c = "V" -> "v" [] c = "W" -> "w" [] c = "X" -> "x"
      [] c = "Y" -> "y" [] c = "Z" -> "z" [] OTHER -> c
toLowerCase(text) == [i \in 1..Len(text) |-> LowerChar(text[i])]

\* String.prototype.includes, on character sequences
includes(text, pattern) ==
    \E i \in 1..(Len(text) - Len(pattern) + 1) :
        SubSeq(text, i, i + Len(pattern) - 1) = pattern

-----------------------------------------------------------------------------
(* The probes.  Each takes the parsed URL u, its verdict slot, whether its  *)
(* network calls get through (net) and the server kind, and gives what the  *)
(* orchestrator's await sees: the slot as the probe left it, and whether    *)
(* the probe's promise rejected.  XInit is what the probe writes before its *)
(* first network call.                                                      *)

\* https.request throws ERR_INVALID_PROTOCOL synchronously, inside the
\* promise executor, for a URL whose protocol is not https:.
HttpsRequestThrows(u) == u.protocol # HTTPS_COLON

\* req.on('error', ...) of checkSSL
sslOnError(slot, message) ==
    [slot EXCEPT !.valid = FALSE, !.issues = Append(@, <<"SSL Error:", message>>)]

checkSSL(u, slot, net, kind) ==
    IF HttpsRequestThrows(u) THEN Raised(slot, ProtocolNotSupportedMsg)
    ELSE IF net = "fail"
    THEN Settled(sslOnError(slot, FetchFailedMsg))
    ELSE IF Respond(kind, "/").protocol \in {"TLSv1.2", "TLSv1.3"}
    THEN Settled([slot EXCEPT !.valid = TRUE])
    ELSE Settled([slot EXCEPT !.valid = FALSE,
                              !.issues = Append(@, <<"Outdated SSL/TLS protocol version">>)])

\* requiredHeaders without its last entry.
requiredHeadersNoCsp ==
    <<"strict-transport-security", "x-content-type-options", "x-frame-options">>

requiredHeaders ==
    <<"strict-transport-security", "x-content-type-options",
      "x-frame-options", "content-security-policy">>

\* req.on('error', ...) of checkHeaders
headersOnError(slot, message) ==
    [slot EXCEPT !.secure = FALSE, !.missing = Append(@, <<"Headers Error:", message>>)]

checkHeaders(u, slot, net, kind) ==
    IF HttpsRequestThrows(u) THEN Raised(slot, ProtocolNotSupportedMsg)
    ELSE IF net = "fail"
    THEN Settled(headersOnError(slot, FetchFailedMsg))
    ELSE LET Absent(h) == Header(kind, h) = ""
             missing == SelectSeq(requiredHeaders, Absent)
         IN  Settled([slot EXCEPT !.missing = missing, !.secure = (Len(missing) = 0)])

testPayloads == <<XssPayload1, XssPayload2, XssPayload3>>

checkXSSInit(slot) == [slot EXCEPT !.vulnerable = FALSE, !.endpoints = <<>>]

checkXSS(u, slot, net, kind) ==
    LET endpoints == <<"/search", "/comment", "/feedback">>
        Echoed(e) ==
            /\ ~FetchFails(u, net) /\ ~Respond(kind, e).failed
            /\ \E i \in 1..Len(testPayloads) :
                 \E text \in Respond(kind, e).body : includes(text, testPayloads[i])
        hit == SelectSeq(endpoints, Echoed)
    IN  Settled([checkXSSInit(slot) EXCEPT !.vulnerable = (Len(hit) > 0), !.endpoints = hit])

sqlErrorPatterns ==
    <<PatSqlSyntax, PatMysqlError, PatPostgresqlError, PatOra, PatSqlServerError>>

checkSQLInjectionInit(slot) == [slot EXCEPT !.vulnerable = FALSE, !.endpoints = <<>>]

checkSQLInjection(u, slot, net, kind) ==
    LET endpoints == <<"/login", "/search", "/profile">>
        Leaks(e) ==
            /\ ~FetchFails(u, net) /\ ~Respond(kind, e).failed
            /\ \E i \in 1..Len(sqlErrorPatterns) :
                 \E text \in Respond(kind, e).body :
                     includes(toLowerCase(text), sqlErrorPatterns[i])
        hit == SelectSeq(endpoints, Leaks)
    IN  Settled([checkSQLInjectionInit(slot) EXCEPT !.vulnerable = (Len(hit) > 0),
                                                    !.endpoints = hit])

checkAccessControlInit(slot) ==
    Put([slot EXCEPT !.vulnerable = FALSE, !.issues = <<>>], "severity", "high")

\* checkAccessControl taking only 401 for a refusal.
checkAccessControlOnly401(u, slot, net, kind) ==
    LET sensitiveEndpoints == <<"/admin", "/api/users", "/dashboard", "/settings">>
        Open(e) == /\ ~FetchFails(u, net) /\ ~Respond(kind, e).failed
                   /\ Respond(kind, e).status # 401
        Issue(e) == <<"Endpoint accessible without authentication:", e>>
        issues == [i \in DOMAIN SelectSeq(sensitiveEndpoints, Open) |->
                      Issue(SelectSeq(sensitiveEndpoints, Open)[i])]
    IN  Settled([checkAccessControlInit(slot) EXCEPT !.vulnerable = (Len(issues) > 0),
                                                     !.issues = issues])

checkAccessControl(u, slot, net, kind) ==
    LET sensitiveEndpoints == <<"/admin", "/api/users", "/dashboard", "/settings">>
        Open(e) == /\ ~FetchFails(u, net) /\ ~Respond(kind, e).failed
                   /\ ~(Respond(kind, e).status \in {401, 403})
        Issue(e) == <<"Endpoint accessible without authentication:", e>>
        issues == [i \in DOMAIN SelectSeq(sensitiveEndpoints, Open) |-> Issue(SelectSeq(sensitiveEndpoints, Open)[i])]
    IN  Settled([checkAccessControlInit(slot) EXCEPT !.vulnerable = (Len(issues) > 0),
                                                     !.issues = issues])

checkCryptographyInit(slot) ==
    Put([slot EXCEPT !.secure = FALSE, !.issues = <<>>], "severity", "critical")

checkCryptography(u, slot, net, kind) ==
    LET init == checkCryptographyInit(slot)
        r == Respond(kind, "/")
        flags == IF r.hasCookie /\ ~({"Secure", "HttpOnly"} \subseteq r.cookie)
                 THEN <<<<"Cookies missing Secure or HttpOnly flags">>>> ELSE <<>>
        same == IF r.hasCookie /\ ~("SameSite" \in r.cookie)
                THEN <<<<"Cookies missing SameSite attribute">>>> ELSE <<>>
        tlsVersion == IF "tls=1.3" \in r.serverTiming THEN "1.3" ELSE "1.2"
        tls == IF tlsVersion # "1.3"
               THEN <<<<"Not using latest TLS version (1.3)">>>> ELSE <<>>
        issues == flags \o same \o tls
    IN  IF FetchFails(u, net) THEN Raised(init, FetchFailedMsg)
        ELSE Settled([init EXCEPT !.issues = issues, !.secure = (Len(issues) = 0)])

checkInsecureDesignInit(slot) ==
    Put([slot EXCEPT !.vulnerable = FALSE, !.issues = <<>>], "severity", "high")

checkInsecureDesign(u, slot, net, kind) ==
    LET designPatterns == <<"/reset-password", "/api/export", "/api/bulk-update">>
        Unlimited(e) == ~FetchFails(u, net) /\ Header(kind, "x-ratelimit-limit") = ""
        Issue(e) == <<"No rate limiting on", e>>
        issues == [i \in DOMAIN SelectSeq(designPatterns, Unlimited) |-> Issue(SelectSeq(designPatterns, Unlimited)[i])]
    IN  Settled([checkInsecureDesignInit(slot) EXCEPT !.vulnerable = (Len(issues) > 0),
                                                      !.issues = issues])

\* checkSecurityConfig's securityHeaders: header name, expected value ("": any)
securityHeaders ==
    << <<"x-content-type-options", "nosniff">>,
       <<"x-frame-options", "DENY">>,
       <<"referrer-policy", "strict-origin-when-cross-origin">>,
       <<"permissions-policy", "">>,
       <<"cross-origin-opener-policy", "same-origin">> >>

checkSecurityConfigInit(slot) ==
    Put([slot EXCEPT !.secure = FALSE, !.issues = <<>>], "severity", "high")

checkSecurityConfig(u, slot, net, kind) ==
    LET init == checkSecurityConfigInit(slot)
        Wrong(hv) == \/ Header(kind, hv[1]) = ""
                     \/ (hv[2] # "" /\ Header(kind, hv[1]) # hv[2])
        Issue(hv) == <<"Missing or incorrect security header:", hv[1]>>
        issues == [i \in DOMAIN SelectSeq(securityHeaders, Wrong) |-> Issue(SelectSeq(securityHeaders, Wrong)[i])]
    IN  IF FetchFails(u, net) THEN Raised(init, FetchFailedMsg)
        ELSE Settled([init EXCEPT !.issues = issues, !.secure = (Len(issues) = 0)])

APACHE_PREFIX == <<"A","p","a","c","h","e","/","2",".","4",".">>
NGINX_PREFIX == <<"n","g","i","n","x","/","1",".">>
PHP_PREFIX == <<"P","H","P","/">>

Digits == {"0", "1", "2", "3", "4", "5", "6", "7", "8", "9"}

\* s has prefix at position i
At(s, i, prefix) ==
    /\ i + Len(prefix) - 1 <= Len(s)
    /\ SubSeq(s, i, i + Len(prefix) - 1) = prefix
CharAt(s, i, set) == i <= Len(s) /\ s[i] \in set

\* /Apache\/2\.4\.(2[0-9]|3[0-9])/.test(s)
MatchesApache(s) ==
    \E i \in 1..Len(s) :
        /\ At(s, i, APACHE_PREFIX)
        /\ CharAt(s, i + 11, {"2", "3"})
        /\ CharAt(s, i + 12, Digits)
\* /nginx\/1\.[0-9]\.[0-9]/.test(s)
MatchesNginx(s) ==
    \E i \in 1..Len(s) :
        /\ At(s, i, NGINX_PREFIX)
        /\ CharAt(s, i + 8, Digits)
        /\ CharAt(s, i + 9, {"."})
        /\ CharAt(s, i + 10, Digits)
\* /PHP\/[1-6]/.test(s)
MatchesPhp(s) ==
    \E i \in 1..Len(s) :
        /\ At(s, i, PHP_PREFIX)
        /\ CharAt(s, i + 4, {"1", "2", "3", "4", "5", "6"})

checkVulnerableComponentsInit(slot) ==
    Put([slot EXCEPT !.vulnerable = FALSE, !.issues = <<>>], "severity", "critical")

checkVulnerableComponents(u, slot, net, kind) ==
    LET init == checkVulnerableComponentsInit(slot)
        serverHeader == ServerHeader(kind)
        vulnerableVersions == <<"Apache < 2.4.40", "nginx < 1.14.0", "PHP < 7.0">>
        Hit(name) ==
            /\ serverHeader # <<>>
            /\ CASE name = "Apache < 2.4.40" -> MatchesApache(serverHeader)
                 [] name = "nginx < 1.14.0" -> MatchesNginx(serverHeader)
                 [] OTHER -> MatchesPhp(serverHeader)
        Issue(name) == <<"Potentially vulnerable component detected:", name>>
        issues == [i \in DOMAIN SelectSeq(vulnerableVersions, Hit) |-> Issue(SelectSeq(vulnerableVersions, Hit)[i])]
    IN  IF FetchFails(u, net) THEN Raised(init, FetchFailedMsg)
        ELSE Settled([init EXCEPT !.issues = issues, !.vulnerable = (Len(issues) > 0)])

\* the concatenation of the sequences of ss
Flatten(ss) ==
    LET F[i \in 0..Len(ss)] == IF i = 0 THEN <<>> ELSE F[i - 1] \o ss[i]
    IN  F[Len(ss)]

checkAuthenticationInit(slot) ==
    Put([slot EXCEPT !.secure = FALSE, !.issues = <<>>], "severity", "critical")

checkAuthentication(u, slot, net, kind) ==
    LET authEndpoints == <<"/login", "/register", "/reset-password">>
        PerEndpoint(e) ==
            IF FetchFails(u, net) THEN <<>>
            ELSE (IF Header(kind, "x-frame-options") = ""
                  THEN << <<"Missing X-Frame-Options header on", e>> >> ELSE <<>>)
                 \o (IF Header(kind, "x-ratelimit-limit") = ""
                     THEN << <<"No rate limiting on", e>> >> ELSE <<>>)
        issues == Flatten([i \in 1..Len(authEndpoints) |-> PerEndpoint(authEndpoints[i])])
    IN  Settled([checkAuthenticationInit(slot) EXCEPT !.issues = issues,
                                                      !.secure = (Len(issues) = 0)])

checkIntegrityFailuresInit(slot) ==
    Put([slot EXCEPT !.vulnerable = FALSE, !.issues = <<>>], "severity", "high")

checkIntegrityFailures(u, slot, net, kind) ==
    LET init == checkIntegrityFailuresInit(slot)
        scriptTags == Respond(kind, "/").scriptTags
        NoIntegrity(hasIntegrity) == ~hasIntegrity
        Issue(t) == <<"Script tag missing Subresource Integrity (SRI) hash">>
        sri == [i \in DOMAIN SelectSeq(scriptTags, NoIntegrity) |-> Issue(SelectSeq(scriptTags, NoIntegrity)[i])]
        csp == IF Header(kind, "content-security-policy") = ""
               THEN <<<<"Missing Content Security Policy">>>> ELSE <<>>
        issues == sri \o csp
    IN  IF FetchFails(u, net) THEN Raised(init, FetchFailedMsg)
        ELSE Settled([init EXCEPT !.issues = issues, !.vulnerable = (Len(issues) > 0)])

checkLoggingInit(slot) ==
    Put([slot EXCEPT !.secure = FALSE, !.issues = <<>>], "severity", "medium")

checkLogging(u, slot, net, kind) ==
    LET suspiciousActions == <<"/login", "/api/data", "/upload">>
        Untracked(e) == ~FetchFails(u, net) /\ Header(kind, "x-request-id") = ""
        Issue(e) == <<"No request tracking on", e>>
        issues == [i \in DOMAIN SelectSeq(suspiciousActions, Untracked) |-> Issue(SelectSeq(suspiciousActions, Untracked)[i])]
    IN  Settled([checkLoggingInit(slot) EXCEPT !.issues = issues,
                                               !.secure = (Len(issues) = 0)])

checkSSRFInit(slot) ==
    Put([slot EXCEPT !.vulnerable = FALSE, !.endpoints = <<>>], "severity", "critical")

\* checkSSRF posting one test URL per endpoint.
checkSSRFOneUrl(u, slot, net, kind) ==
    LET ssrfEndpoints == <<"/api/fetch", "/api/proxy", "/api/import", "/api/webhook">>
        Accepted(e) == /\ ~FetchFails(u, net) /\ ~Respond(kind, e).failed
                       /\ ~(Respond(kind, e).status \in {403, 400})
        Entry(e) == <<e, "might be vulnerable to SSRF">>
        hit == [i \in DOMAIN SelectSeq(ssrfEndpoints, Accepted) |->
                   Entry(SelectSeq(ssrfEndpoints, Accepted)[i])]
    IN  Settled([checkSSRFInit(slot) EXCEPT !.vulnerable = (Len(hit) > 0),
                                            !.endpoints = hit])

checkSSRF(u, slot, net, kind) ==
    LET ssrfEndpoints == <<"/api/fetch", "/api/proxy", "/api/import", "/api/webhook">>
        testUrls == <<"http://169.254.169.254/latest/meta-data/", "http://localhost/",
                      "http://127.0.0.1/", "file:///etc/passwd">>
        requests == [k \in 1..(Len(ssrfEndpoints) * Len(testUrls)) |->
                        ssrfEndpoints[((k - 1) \div Len(testUrls)) + 1]]
        Accepted(e) == /\ ~FetchFails(u, net) /\ ~Respond(kind, e).failed
                       /\ ~(Respond(kind, e).status \in {403, 400})
        Entry(e) == <<e, "might be vulnerable to SSRF">>
        hit == [i \in DOMAIN SelectSeq(requests, Accepted) |-> Entry(SelectSeq(requests, Accepted)[i])]
    IN  Settled([checkSSRFInit(slot) EXCEPT !.vulnerable = (Len(hit) > 0),
                                            !.endpoints = hit])

-----------------------------------------------------------------------------
(* The orchestrator: performSecurityCheck *)

LegacyOrder == <<"ssl", "headers", "xss", "sql">>

\* The extended battery with the SQL block moved before the XSS block.
ExtendedOrderSqlFirst ==
    <<"ssl", "headers", "sql", "xss", "accessControl", "cryptography",
      "insecureDesign", "securityConfig", "vulnerableComponents", "authentication",
      "integrityFailures", "logging", "ssrf">>

ExtendedOrder ==
    <<"ssl", "headers", "xss", "sql", "accessControl", "cryptography",
      "insecureDesign", "securityConfig", "vulnerableComponents", "authentication",
      "integrityFailures", "logging", "ssrf">>

\* The try blocks of performSecurityCheck, in program order.
ProbeOrder(p) == IF p = "legacy" THEN LegacyOrder ELSE ExtendedOrder

totalChecks == 13

Range(s) == {s[i] : i \in 1..Len(s)}

\* `const results = {...}': the aggregate as performSecurityCheck creates it.
LegacyResults ==
    [ssl |-> [valid |-> FALSE, issues |-> <<>>],
     headers |-> [secure |-> FALSE, missing |-> <<>>],
     xss |-> [vulnerable |-> FALSE, endpoints |-> <<>>],
     sql |-> [vulnerable |-> FALSE, endpoints |-> <<>>]]

ExtendedResults ==
    [ssl |-> [valid |-> FALSE, issues |-> <<>>],
     headers |-> [secure |-> FALSE, missing |-> <<>>],
     xss |-> [vulnerable |-> FALSE, endpoints |-> <<>>],
     sql |-> [vulnerable |-> FALSE, endpoints |-> <<>>],
     accessControl |-> [vulnerable |-> FALSE, issues |-> <<>>],
     cryptography |-> [secure |-> FALSE, issues |-> <<>>],
     insecureDesign |-> [vulnerable |-> FALSE, issues |-> <<>>],
     securityConfig |-> [secure |-> FALSE, issues |-> <<>>],
     vulnerableComponents |-> [vulnerable |-> FALSE, issues |-> <<>>],
     authentication |-> [secure |-> FALSE, issues |-> <<>>],
     integrityFailures |-> [vulnerable |-> FALSE, issues |-> <<>>],
     logging |-> [secure |-> FALSE, issues |-> <<>>],
     ssrf |-> [vulnerable |-> FALSE, endpoints |-> <<>>]]

\* The aggregate created with the SSL verdict already set.
InitialResultsSslValid(p) ==
    IF p = "legacy" THEN [LegacyResults EXCEPT !.ssl.valid = TRUE]
    ELSE [ExtendedResults EXCEPT !.ssl.valid = TRUE]

InitialResults(p) == IF p = "legacy" THEN LegacyResults ELSE ExtendedResults

\* The list each catch block pushes its error entry to, and the entry's prefix.
ListField(cat) ==
    CASE cat = "headers" -> "missing"
      [] cat \in {"xss", "sql", "ssrf"} -> "endpoints"
      [] OTHER -> "issues"

ErrorPrefix(cat) ==
    CASE cat = "ssl" -> "SSL Error:"
      [] cat = "headers" -> "Headers Error:"
      [] cat = "xss" -> "XSS Error:"
      [] cat = "sql" -> "SQL Error:"
      [] cat = "accessControl" -> "Access Control Error:"
      [] cat = "cryptography" -> "Cryptography Error:"
      [] cat = "insecureDesign" -> "Design Error:"
      [] cat = "securityConfig" -> "Configuration Error:"
      [] cat = "vulnerableComponents" -> "Component Error:"
      [] cat = "authentication" -> "Authentication Error:"
      [] cat = "integrityFailures" -> "Integrity Error:"
      [] cat = "logging" -> "Logging Error:"
      [] OTHER -> "SSRF Error:"

\* What the probe of a category writes on invocation, before it first awaits.
ProbeInit(cat, slot) ==
    CASE cat \in {"ssl", "headers"} -> slot
      [] cat = "xss" -> checkXSSInit(slot)
      [] cat = "sql" -> checkSQLInjectionInit(slot)
      [] cat = "accessControl" -> checkAccessControlInit(slot)
      [] cat = "cryptography" -> checkCryptographyInit(slot)
      [] cat = "insecureDesign" -> checkInsecureDesignInit(slot)
      [] cat = "securityConfig" -> checkSecurityConfigInit(slot)
      [] cat = "vulnerableComponents" -> checkVulnerableComponentsInit(slot)
      [] cat = "authentication" -> checkAuthenticationInit(slot)
      [] cat = "integrityFailures" -> checkIntegrityFailuresInit(slot)
      [] cat = "logging" -> checkLoggingInit(slot)
      [] OTHER -> checkSSRFInit(slot)

\* `await checkX(url, results.x)'
RunProbe(cat, u, slot, net, kind) ==
    CASE cat = "ssl" -> checkSSL(u, slot, net, kind)
      [] cat = "headers" -> checkHeaders(u, slot, net, kind)
      [] cat = "xss" -> checkXSS(u, slot, net, kind)
      [] cat = "sql" -> checkSQLInjection(u, slot, net, kind)
      [] cat = "accessControl" -> checkAccessControl(u, slot, net, kind)
      [] cat = "cryptography" -> checkCryptography(u, slot, net, kind)
      [] cat = "insecureDesign" -> checkInsecureDesign(u, slot, net, kind)
      [] cat = "securityConfig" -> checkSecurityConfig(u, slot, net, kind)
      [] cat = "vulnerableComponents" -> checkVulnerableComponents(u, slot, net, kind)
      [] cat = "authentication" -> checkAuthentication(u, slot, net, kind)
      [] cat = "integrityFailures" -> checkIntegrityFailures(u, slot, net, kind)
      [] cat = "logging" -> checkLogging(u, slot, net, kind)
      [] OTHER -> checkSSRF(u, slot, net, kind)

(* Progress values are rationals num/den.  The extended scanner computes    *)
(* ++completedChecks * (100 / totalChecks) in IEEE doubles: for             *)
(* completedChecks in 1..12 the product is not an integer, and for 13 it is *)
(* exactly 100, as for the exact quotient kept here.  The legacy scanner    *)
(* passes the literals 25, 50, 75, 100.                                     *)
Rat(n, d) == [num |-> n, den |-> d]
IsInteger(q) == q.num % q.den = 0
Less(q, r) == q.num * r.den < r.num * q.den
Equals(q, n) == q.num = n * q.den
\* Math.round(n / d) for n >= 0, d > 0
Round(n, d) == (2 * n + d) \div (2 * d)

\* A progress value that counts the checks left.
ProgressValueCountdown(p, idx, completed) ==
    IF p = "legacy" THEN Rat(100 - 25 * idx, 1)
    ELSE Rat((totalChecks - completed) * 100, totalChecks)

ProgressValue(p, idx, completed) ==
    IF p = "legacy" THEN Rat(25 * idx, 1) ELSE Rat(completed * 100, totalChecks)

\* The block without its catch: the probe's error leaves performSecurityCheck.
TryProbeNoCatch(p, idx, completed, res, outcome) ==
    LET cat == ProbeOrder(p)[idx]
        done == IF p = "legacy" THEN completed ELSE completed + 1
    IN  IF ~outcome.raised
        THEN [results |-> [res EXCEPT ![cat] = outcome.slot],
              completedChecks |-> done,
              progress |-> <<ProgressValue(p, idx, done)>>,
              escaped |-> FALSE]
        ELSE [results |-> [res EXCEPT ![cat] = outcome.slot],
              completedChecks |-> completed,
              progress |-> <<>>,
              escaped |-> TRUE]

\* The block with a catch that replaces the slot instead of appending to it.
TryProbeDropsVerdict(p, idx, completed, res, outcome) ==
    LET cat == ProbeOrder(p)[idx]
        done == IF p = "legacy" THEN completed ELSE completed + 1
    IN  IF ~outcome.raised
        THEN [results |-> [res EXCEPT ![cat] = outcome.slot],
              completedChecks |-> done,
              progress |-> <<ProgressValue(p, idx, done)>>,
              escaped |-> FALSE]
        ELSE [results |-> [res EXCEPT ![cat] = [error |-> outcome.message]],
              completedChecks |-> completed,
              progress |-> <<>>,
              escaped |-> FALSE]

\* The block with a catch that pushes its entry twice.
TryProbePushesTwice(p, idx, completed, res, outcome) ==
    LET cat == ProbeOrder(p)[idx]
        done == IF p = "legacy" THEN completed ELSE completed + 1
        f == ListField(cat)
        entry == <<ErrorPrefix(cat), outcome.message>>
    IN  IF ~outcome.raised
        THEN [results |-> [res EXCEPT ![cat] = outcome.slot],
              completedChecks |-> done,
              progress |-> <<ProgressValue(p, idx, done)>>,
              escaped |-> FALSE]
        ELSE [results |-> [res EXCEPT ![cat] =
                              Put(outcome.slot, f, outcome.slot[f] \o <<entry, entry>>)],
              completedChecks |-> completed,
              progress |-> <<>>,
              escaped |-> FALSE]

\* One try/catch block of performSecurityCheck, given what the awaited probe
\* did (outcome): the slot it left, the counter, the progress calls made
\* (none or one), and whether an exception leaves the block.
TryProbe(p, idx, completed, res, outcome) ==
    LET cat == ProbeOrder(p)[idx]
        done == IF p = "legacy" THEN completed ELSE completed + 1
        f == ListField(cat)
    IN  IF ~outcome.raised
        THEN [results |-> [res EXCEPT ![cat] = outcome.slot],
              completedChecks |-> done,
              progress |-> <<ProgressValue(p, idx, done)>>,
              escaped |-> FALSE]
        ELSE [results |-> [res EXCEPT ![cat] =
                              Put(outcome.slot, f,
                                  Append(outcome.slot[f],
                                         <<ErrorPrefix(cat), outcome.message>>))],
              completedChecks |-> completed,
              progress |-> <<>>,
              escaped |-> FALSE]

-----------------------------------------------------------------------------
(* The job store: MemStorage *)

\* JavaScript undefined and null, as records so that they compare with records
Undefined == [undefined |-> TRUE]
Null == [null |-> TRUE]

\* The job store and the promise jobs hold the aggregate by reference: it is
\* the object performSecurityCheck created and the probes' callbacks write to.
AggregateRef == [ref |-> "aggregate"]

\* Map.prototype.get
getScan(map, id) == IF id \in DOMAIN map THEN map[id] ELSE Undefined

\* Map.prototype.set
MapSet(map, id, value) ==
    [k \in (DOMAIN map) \cup {id} |-> IF k = id THEN value ELSE map[k]]

\* getUserScans: the records of the map, in insertion order, that userId owns.
RECURSIVE ValuesFrom(_, _)
ValuesFrom(map, k) ==
    IF k \notin DOMAIN map THEN <<>> ELSE <<map[k]>> \o ValuesFrom(map, k + 1)

\* A getUserScans without the filter.
getUserScansAll(map, userId) == ValuesFrom(map, 1)

getUserScans(map, userId) ==
    LET Owned(scan) == scan.userId = userId
    IN  SelectSeq(ValuesFrom(map, 1), Owned)

\* A createScan that reads the counter without advancing it.
createScanReusesId(map, nextId, userId, body) ==
    LET newScan == [id |-> nextId, userId |-> userId, url |-> body.url,
                    status |-> "running", progress |-> Rat(0, 1),
                    results |-> Null, createdAt |-> "now"]
    IN  [scan |-> newScan, scans |-> MapSet(map, nextId, newScan),
         currentScanId |-> nextId]

\* createScan: the new record, the map with it, the advanced counter.
createScan(map, nextId, userId, body) ==
    LET newScan == [id |-> nextId, userId |-> userId, url |-> body.url,
                    status |-> "running", progress |-> Rat(0, 1),
                    results |-> Null, createdAt |-> "now"]
    IN  [scan |-> newScan, scans |-> MapSet(map, nextId, newScan),
         currentScanId |-> nextId + 1]

\* updateScanResults without `progress: 100'.
updateScanResultsKeepsProgress(map, id, scan, res) ==
    IF scan # Undefined
    THEN MapSet(map, id, [scan EXCEPT !.status = "completed", !.results = res])
    ELSE map

\* updateScanResults after its `await this.getScan(id)': scan is what the
\* call read before it awaited.
updateScanResultsWrite(map, id, scan, res) ==
    IF scan # Undefined
    THEN MapSet(map, id, [scan EXCEPT !.status = "completed",
                                      !.progress = Rat(100, 1),
                                      !.results = res])
    ELSE map

\* An updateScanProgress that sets the progress of every record.
updateScanProgressWriteAll(map, id, scan, progress) ==
    IF scan # Undefined
    THEN [k \in DOMAIN map |-> [map[k] EXCEPT !.progress = progress]]
    ELSE map

\* An updateScanProgress without its `if (scan)'.
updateScanProgressWriteAlways(map, id, scan, progress) ==
    IF scan # Undefined
    THEN MapSet(map, id, [scan EXCEPT !.progress = progress])
    ELSE MapSet(map, id, [progress |-> progress])

\* updateScanProgress after its `await this.getScan(id)'.
updateScanProgressWrite(map, id, scan, progress) ==
    IF scan # Undefined
    THEN MapSet(map, id, [scan EXCEPT !.progress = progress])
    ELSE map

-----------------------------------------------------------------------------
(* The route: POST /api/scans *)

RouteVersions == {"shadowed", "failedScan"}

\* The aggregate the rejection handler stores.
DegradedResults(version, message) ==
    LET base == [error |-> message,
                 ssl |-> [valid |-> FALSE, issues |-> <<message>>],
                 headers |-> [secure |-> FALSE, missing |-> <<>>],
                 xss |-> [vulnerable |-> FALSE, endpoints |-> <<>>],
                 sql |-> [vulnerable |-> FALSE, endpoints |-> <<>>]]
    IN  IF version = "failedScan" THEN Put(base, "status", "failed") ELSE base

\* `const scan = await storage.getScan(scan.id)' reads the block's own
\* `scan' before it is initialised: a ReferenceError.
CatchHandlerThrows(version) == version = "shadowed"

-----------------------------------------------------------------------------
\* ProbeSpec's variables while the program runs: no probe is called directly.
HarnessIdle ==
    /\ hProbe = "ssl"
    /\ hUrl = HttpsTarget
    /\ hNet = "ok"
    /\ hServer = [name |-> "hardened"]
    /\ hSlot = Null
    /\ hVerdicts = <<>>
    /\ hPc = "idle"

\* TwoScanSpec's and StoreSpec's variables while the program of Spec runs.
TasksIdle == tasks = <<>>
StoreIdle == response = Null

\* The program's variables before any request.
ScanIdle ==
    /\ httpStatus = 0
    /\ scans = <<>>
    /\ currentScanId = 1
    /\ jobId = 0
    /\ scanPc = "idle"
    /\ url = GarbageTarget
    /\ results = Null
    /\ completedChecks = 0
    /\ probeIdx = 0
    /\ scanError = NoError
    /\ microtasks = <<>>
    /\ unhandled = FALSE
    /\ invoked = <<>>
    /\ raised = {}
    /\ progressCalls = <<>>
    /\ netFailures = 0
    /\ settled = <<>>
    /\ responded = {}
    /\ lateFired = {}
    /\ posted = Null

Init ==
    /\ profile \in {"legacy", "extended"}
    /\ routeVersion \in RouteVersions
    /\ server \in ServerKinds
    /\ ScanIdle
    /\ HarnessIdle
    /\ TasksIdle
    /\ StoreIdle

\* app.post("/api/scans", ...) up to the response, with the synchronous
\* start of performSecurityCheck: validation, the aggregate, the first probe.
PostScans(authenticated, userId, body) ==
    /\ httpStatus = 0
    /\ posted' = [authenticated |-> authenticated, userId |-> userId, body |-> body]
    /\ UNCHANGED <<profile, routeVersion, server, completedChecks, unhandled,
                   raised, progressCalls, netFailures, settled,
                   responded, lateFired>>
    /\ UNCHANGED aside
    /\ IF ~authenticated
       THEN /\ httpStatus' = 401
            /\ UNCHANGED <<scans, currentScanId, jobId, scanPc, url, results,
                           probeIdx, scanError, microtasks, invoked>>
       ELSE IF ~insertScanSchema(body) \/ ~urlSchema(body.url)
       THEN /\ httpStatus' = 400
            /\ UNCHANGED <<scans, currentScanId, jobId, scanPc, url, results,
                           probeIdx, scanError, microtasks, invoked>>
       ELSE LET created == createScan(scans, currentScanId, userId, body)
                err == ValidateTarget(body.url)
                first == ProbeOrder(profile)[1]
                fresh == InitialResults(profile)
            IN  /\ httpStatus' = 201
                /\ scans' = created.scans
                /\ currentScanId' = created.currentScanId
                /\ jobId' = created.scan.id
                /\ IF err # NoError
                   THEN /\ scanPc' = "rejected"
                        /\ scanError' = err
                        /\ microtasks' = <<[kind |-> "catch", id |-> created.scan.id,
                                           message |-> err]>>
                        /\ UNCHANGED <<url, results, probeIdx, invoked>>
                   ELSE /\ scanPc' = "probing"
                        /\ url' = body.url
                        /\ results' = [fresh EXCEPT ![first] = ProbeInit(first, @)]
                        /\ probeIdx' = 1
                        /\ invoked' = <<first>>
                        /\ UNCHANGED <<scanError, microtasks>>

\* The probe in flight settles and performSecurityCheck runs on to its next
\* await: the rest of this try/catch block, then either the next probe's
\* invocation or `return results'.
ProbeSettles(net) ==
    /\ scanPc = "probing"
    /\ microtasks = <<>>
    /\ net = "fail" => netFailures < MaxNetFailures
    /\ LET order == ProbeOrder(profile)
           cat == order[probeIdx]
           outcome == RunProbe(cat, url, results[cat], net, server)
           block == TryProbe(profile, probeIdx, completedChecks, results, outcome)
           calls == [i \in 1..Len(block.progress) |->
                        [kind |-> "progressWrite",
                         id |-> jobId,
                         scan |-> getScan(scans, jobId),
                         progress |-> block.progress[i]]]
       IN  /\ netFailures' = IF net = "fail" THEN netFailures + 1 ELSE netFailures
           /\ settled' = Append(settled, cat)
           /\ responded' = IF cat \in {"ssl", "headers"} /\ net = "ok" /\ ~outcome.raised
                            THEN responded \cup {cat} ELSE responded
           /\ raised' = IF outcome.raised THEN raised \cup {cat} ELSE raised
           /\ completedChecks' = block.completedChecks
           /\ progressCalls' = progressCalls \o
                  [i \in 1..Len(block.progress) |->
                      [value |-> block.progress[i], settled |-> probeIdx]]
           /\ IF block.escaped
              THEN /\ scanPc' = "rejected"
                   /\ scanError' = outcome.message
                   /\ results' = block.results
                   /\ probeIdx' = 0
                   /\ microtasks' = calls \o <<[kind |-> "catch", id |-> jobId,
                                               message |-> outcome.message]>>
                   /\ UNCHANGED invoked
              ELSE IF probeIdx < Len(order)
              THEN LET next == order[probeIdx + 1]
                   IN  /\ results' = [block.results EXCEPT ![next] = ProbeInit(next, @)]
                       /\ probeIdx' = probeIdx + 1
                       /\ invoked' = Append(invoked, next)
                       /\ microtasks' = calls
                       /\ UNCHANGED <<scanPc, scanError>>
              ELSE /\ results' = block.results
                   /\ probeIdx' = 0
                   /\ scanPc' = "returned"
                   /\ microtasks' = calls \o <<[kind |-> "then", id |-> jobId,
                                               results |-> AggregateRef]>>
                   /\ UNCHANGED <<invoked, scanError>>
    /\ UNCHANGED <<profile, routeVersion, server, httpStatus, scans, currentScanId,
                   jobId, url, unhandled, lateFired>>
    /\ UNCHANGED <<posted, aside>>

\* The continuation of storage.updateScanProgress.
UpdateScanProgress ==
    /\ microtasks # <<>>
    /\ Head(microtasks).kind = "progressWrite"
    /\ scans' = updateScanProgressWrite(scans, Head(microtasks).id,
                                        Head(microtasks).scan,
                                        Head(microtasks).progress)
    /\ microtasks' = Tail(microtasks)
    /\ UNCHANGED <<profile, routeVersion, server, httpStatus, currentScanId, jobId,
                   scanPc, url, results, completedChecks, probeIdx, scanError,
                   unhandled, invoked, raised, progressCalls, netFailures, settled,
                   responded, lateFired>>
    /\ UNCHANGED <<posted, aside>>

\* .then(async (results) => { await storage.updateScanResults(scan.id, results) })
ThenHandler ==
    /\ microtasks # <<>>
    /\ Head(microtasks).kind = "then"
    /\ microtasks' = Append(Tail(microtasks),
                            [kind |-> "resultsWrite",
                             id |-> Head(microtasks).id,
                             scan |-> getScan(scans, Head(microtasks).id),
                             results |-> Head(microtasks).results])
    /\ UNCHANGED <<profile, routeVersion, server, httpStatus, scans, currentScanId,
                   jobId, scanPc, url, results, completedChecks, probeIdx, scanError,
                   unhandled, invoked, raised, progressCalls, netFailures, settled,
                   responded, lateFired>>
    /\ UNCHANGED <<posted, aside>>

\* .catch(async (error) => { ... }) up to its first await.
CatchHandler ==
    /\ microtasks # <<>>
    /\ Head(microtasks).kind = "catch"
    /\ IF CatchHandlerThrows(routeVersion)
       THEN /\ unhandled' = TRUE
            /\ microtasks' = Tail(microtasks)
       ELSE /\ microtasks' = Append(Tail(microtasks),
                                    [kind |-> "catchGotScan",
                                     id |-> Head(microtasks).id,
                                     scan |-> getScan(scans, Head(microtasks).id),
                                     message |-> Head(microtasks).message])
            /\ UNCHANGED unhandled
    /\ UNCHANGED <<profile, routeVersion, server, httpStatus, scans, currentScanId,
                   jobId, scanPc, url, results, completedChecks, probeIdx, scanError,
                   invoked, raised, progressCalls, netFailures, settled,
                   responded, lateFired>>
    /\ UNCHANGED <<posted, aside>>

\* The rejection handler after `await storage.getScan(scan.id)'.
CatchGotScan ==
    /\ microtasks # <<>>
    /\ Head(microtasks).kind = "catchGotScan"
    /\ IF Head(microtasks).scan # Undefined
       THEN microtasks' = Append(Tail(microtasks),
                                 [kind |-> "resultsWrite",
                                  id |-> Head(microtasks).id,
                                  scan |-> getScan(scans, Head(microtasks).id),
                                  results |-> DegradedResults(routeVersion,
                                                              Head(microtasks).message)])
       ELSE microtasks' = Tail(microtasks)
    /\ UNCHANGED <<profile, routeVersion, server, httpStatus, scans, currentScanId,
                   jobId, scanPc, url, results, completedChecks, probeIdx, scanError,
                   unhandled, invoked, raised, progressCalls, netFailures, settled,
                   responded, lateFired>>
    /\ UNCHANGED <<posted, aside>>

\* The continuation of storage.updateScanResults.
UpdateScanResults ==
    /\ microtasks # <<>>
    /\ Head(microtasks).kind = "resultsWrite"
    /\ scans' = updateScanResultsWrite(scans, Head(microtasks).id,
                                       Head(microtasks).scan,
                                       Head(microtasks).results)
    /\ microtasks' = Tail(microtasks)
    /\ UNCHANGED <<profile, routeVersion, server, httpStatus, currentScanId, jobId,
                   scanPc, url, results, completedChecks, probeIdx, scanError,
                   unhandled, invoked, raised, progressCalls, netFailures, settled,
                   responded, lateFired>>
    /\ UNCHANGED <<posted, aside>>

\* The request checkSSL or checkHeaders made emits 'error' after its response
\* callback ran (the connection is reset, or the bytes after the response
\* do not parse): the probe's error listener runs on the slot once more.
\* A request emits 'error' at most once.
LateError(cat) ==
    /\ scanPc \in {"probing", "returned"}
    /\ microtasks = <<>>
    /\ cat \in responded
    /\ cat \notin lateFired
    /\ results' = [results EXCEPT ![cat] =
                      IF cat = "ssl" THEN sslOnError(@, LateErrorMsg)
                      ELSE headersOnError(@, LateErrorMsg)]
    /\ lateFired' = lateFired \cup {cat}
    /\ UNCHANGED <<profile, routeVersion, server, httpStatus, scans, currentScanId,
                   jobId, scanPc, url, completedChecks, probeIdx, scanError,
                   microtasks, unhandled, invoked, raised, progressCalls,
                   netFailures, settled, responded>>
    /\ UNCHANGED <<posted, aside>>

Next ==
    \/ \E a \in BOOLEAN, u \in Users, b \in Bodies : PostScans(a, u, b)
    \/ \E net \in {"ok", "fail"} : ProbeSettles(net)
    \/ \E cat \in {"ssl", "headers"} : LateError(cat)
    \/ UpdateScanProgress
    \/ ThenHandler
    \/ CatchHandler
    \/ CatchGotScan
    \/ UpdateScanResults

Spec == Init /\ [][Next]_vars

\* Every network call eventually responds or fails, and the event loop runs
\* every queued job.
FairSpec == Spec /\ WF_vars(Next)

-----------------------------------------------------------------------------
(* Calling one probe function directly *)

HeaderNames ==
    {"strict-transport-security", "x-content-type-options", "x-frame-options",
     "content-security-policy"}

\* Targets that differ in which of the four headers they send.
HeaderServers ==
    {Custom(hs, <<>>, <<>>, {}, "TLSv1.3") : hs \in SUBSET HeaderNames}

SqlEndpoints == {"/login", "/search", "/profile"}
SqlBodies ==
    {TextWelcome, TextSqlSyntax, TextMySqlError, TextPostgres, TextOra, TextSqlServer}

\* Targets that differ in the body of each endpoint checkSQLInjection requests
\* and in which of these requests fail.
SqlServers ==
    {Custom({}, <<>>, [e \in SqlEndpoints |-> {b[e]}], down, "TLSv1.3") :
        b \in [SqlEndpoints -> SqlBodies], down \in SUBSET SqlEndpoints}

SensitivePaths == {"/admin", "/api/users", "/dashboard", "/settings"}
Statuses == {200, 401, 403, 500}

\* Targets that differ in the status of each path checkAccessControl requests
\* and in which of these requests fail.
AccessServers ==
    {Custom({}, st, <<>>, down, "TLSv1.3") :
        st \in [SensitivePaths -> Statuses], down \in SUBSET SensitivePaths}

XssEndpoints == {"/search", "/comment", "/feedback"}
XssBodies == {TextWelcome, XssPayload1, XssPayload2, XssPayload3}

\* Targets that differ in the body of each endpoint checkXSS requests and in
\* which of these requests fail.
XssServers ==
    {Custom({}, <<>>, [e \in XssEndpoints |-> {b[e]}], down, "TLSv1.3") :
        b \in [XssEndpoints -> XssBodies], down \in SUBSET XssEndpoints}

SsrfEndpoints == {"/api/fetch", "/api/proxy", "/api/import", "/api/webhook"}
SsrfStatuses == {200, 400, 403, 500}

\* Targets that differ in the status each endpoint checkSSRF posts to answers
\* with and in which of these requests fail.
SsrfServers ==
    {Custom({}, st, <<>>, down, "TLSv1.3") :
        st \in [SsrfEndpoints -> SsrfStatuses], down \in SUBSET SsrfEndpoints}

ProbeServers(cat) ==
    CASE cat = "headers" -> HeaderServers \cup ServerKinds
      [] cat = "xss" -> XssServers \cup ServerKinds
      [] cat = "sql" -> SqlServers \cup ServerKinds
      [] cat = "accessControl" -> AccessServers \cup ServerKinds
      [] cat = "ssrf" -> SsrfServers \cup ServerKinds
      [] OTHER -> ServerKinds

ProbeSpecInit ==
    /\ profile = "extended"
    /\ routeVersion = "failedScan"
    /\ server = [name |-> "hardened"]
    /\ ScanIdle
    /\ hProbe \in Range(ExtendedOrder)
    /\ hUrl \in {HttpsTarget, HttpTarget}
    /\ hNet \in {"ok", "fail"}
    /\ hServer \in ProbeServers(hProbe)
    /\ hSlot = ExtendedResults[hProbe]
    /\ hVerdicts = <<>>
    /\ hPc = "idle"
    /\ TasksIdle
    /\ StoreIdle

\* `checkX(hUrl, hSlot)' up to the probe's first network call.
CallProbe ==
    /\ hPc = "idle"
    /\ Len(hVerdicts) < MaxRuns
    /\ hSlot' = ProbeInit(hProbe, hSlot)
    /\ hPc' = "awaiting"
    /\ UNCHANGED <<program, tasks, response, hProbe, hUrl, hNet, hServer, hVerdicts>>

\* The rest of the call, to the settling of its promise.
ProbeCallSettles ==
    /\ hPc = "awaiting"
    /\ LET outcome == RunProbe(hProbe, hUrl, hSlot, hNet, hServer)
       IN  /\ hSlot' = outcome.slot
           /\ hVerdicts' = Append(hVerdicts, [slot |-> outcome.slot,
                                              raised |-> outcome.raised])
    /\ hPc' = "idle"
    /\ UNCHANGED <<program, tasks, response, hProbe, hUrl, hNet, hServer>>

ProbeSpecNext == CallProbe \/ ProbeCallSettles

ProbeSpec == ProbeSpecInit /\ [][ProbeSpecNext]_vars

-----------------------------------------------------------------------------
(* Two scans on the one event loop *)

\* The targets of the two POST /api/scans requests.
ScanTargets == <<HttpsTarget, HttpTarget>>

\* The aggregate of job j, held by reference by its promise jobs and record.
TaskRef(j) == [ref |-> "aggregate", job |-> j]

\* performSecurityCheck from its probe idx on, run alone: the aggregate it
\* returns and the values it passes to updateProgress.
RECURSIVE SoloFrom(_, _, _, _, _, _, _, _)
SoloFrom(p, u, kind, net, idx, res, completed, progress) ==
    IF idx > Len(ProbeOrder(p)) THEN [results |-> res, progress |-> progress]
    ELSE LET cat == ProbeOrder(p)[idx]
             entered == [res EXCEPT ![cat] = ProbeInit(cat, @)]
             outcome == RunProbe(cat, u, entered[cat], net, kind)
             block == TryProbe(p, idx, completed, entered, outcome)
         IN  SoloFrom(p, u, kind, net, idx + 1, block.results,
                      block.completedChecks, progress \o block.progress)

SoloRun(p, u, kind, net) == SoloFrom(p, u, kind, net, 1, InitialResults(p), 0, <<>>)

\* The variables the two scans leave alone.
twoScanAside == <<profile, routeVersion, server, httpStatus, jobId, scanPc, url,
                  results, completedChecks, probeIdx, scanError, unhandled, invoked,
                  raised, progressCalls, netFailures, settled, responded, lateFired,
                  posted, harness, response>>

TwoScanInit ==
    /\ profile \in {"legacy", "extended"}
    /\ routeVersion = "failedScan"
    /\ server = [name |-> "hardened"]
    /\ ScanIdle
    /\ HarnessIdle
    /\ TasksIdle
    /\ StoreIdle

\* POST /api/scans by user currentScanId for the next target, which answers
\* as kind does and whose network is net: createScan, then
\* performSecurityCheck up to its first probe's first await.
StartScan(kind, net) ==
    /\ microtasks = <<>>
    /\ currentScanId <= Len(ScanTargets)
    /\ LET body == [hasUrl |-> TRUE, url |-> ScanTargets[currentScanId]]
           created == createScan(scans, currentScanId, currentScanId, body)
           first == ProbeOrder(profile)[1]
           fresh == InitialResults(profile)
       IN  /\ scans' = created.scans
           /\ currentScanId' = created.currentScanId
           /\ tasks' = MapSet(tasks, created.scan.id,
                              [pc |-> "probing", url |-> body.url, server |-> kind,
                               net |-> net,
                               results |-> [fresh EXCEPT ![first] = ProbeInit(first, @)],
                               completedChecks |-> 0, probeIdx |-> 1,
                               progress |-> <<>>])
    /\ UNCHANGED <<microtasks, twoScanAside>>

\* The probe in flight of job j settles.
TaskProbeSettles(j) ==
    /\ j \in DOMAIN tasks
    /\ tasks[j].pc = "probing"
    /\ microtasks = <<>>
    /\ LET t == tasks[j]
           order == ProbeOrder(profile)
           cat == order[t.probeIdx]
           outcome == RunProbe(cat, t.url, t.results[cat], t.net, t.server)
           block == TryProbe(profile, t.probeIdx, t.completedChecks, t.results, outcome)
           calls == [i \in 1..Len(block.progress) |->
                        [kind |-> "progressWrite",
                         id |-> j,
                         scan |-> getScan(scans, j),
                         progress |-> block.progress[i]]]
           after == [t EXCEPT !.completedChecks = block.completedChecks,
                              !.progress = t.progress \o block.progress]
       IN  IF t.probeIdx < Len(order)
           THEN LET next == order[t.probeIdx + 1]
                IN  /\ tasks' = [tasks EXCEPT ![j] =
                                    [after EXCEPT
                                       !.results = [block.results EXCEPT
                                                       ![next] = ProbeInit(next, @)],
                                       !.probeIdx = t.probeIdx + 1]]
                    /\ microtasks' = calls
           ELSE /\ tasks' = [tasks EXCEPT ![j] =
                                [after EXCEPT !.results = block.results,
                                              !.probeIdx = 0,
                                              !.pc = "returned"]]
                /\ microtasks' = calls \o <<[kind |-> "then", id |-> j,
                                             results |-> TaskRef(j)]>>
    /\ UNCHANGED <<scans, currentScanId, twoScanAside>>

TwoScanNext ==
    \/ \E kind \in ServerKinds, net \in {"ok", "fail"} : StartScan(kind, net)
    \/ \E j \in 1..Len(ScanTargets) : TaskProbeSettles(j)
    \/ UpdateScanProgress
    \/ ThenHandler
    \/ UpdateScanResults

TwoScanSpec == TwoScanInit /\ [][TwoScanNext]_vars

-----------------------------------------------------------------------------
(* The job store and the GET routes, called directly *)

MaxScans == 2
MaxPending == 2

IdParams == {<<"1">>, <<"2">>, <<"3">>, <<"1", "x">>, <<"x">>}

DigitValue(c) ==
    CASE c = "0" -> 0 [] c = "1" -> 1 [] c = "2" -> 2 [] c = "3" -> 3 [] c = "4" -> 4
      [] c = "5" -> 5 [] c = "6" -> 6 [] c = "7" -> 7 [] c = "8" -> 8 [] c = "9" -> 9
      [] OTHER -> -1

NaN == [nan |-> TRUE, value |-> 0]
Num(n) == [nan |-> FALSE, value |-> n]
isNaN(n) == n.nan

\* The value of the longest prefix of s made of digits.
RECURSIVE DigitsPrefix(_, _, _)
DigitsPrefix(s, i, acc) ==
    IF i > Len(s) \/ DigitValue(s[i]) < 0 THEN [read |-> i - 1, value |-> acc]
    ELSE DigitsPrefix(s, i + 1, 10 * acc + DigitValue(s[i]))

\* parseInt(req.params.id): the leading digits, NaN if there are none.
parseInt(s) ==
    LET prefix == DigitsPrefix(s, 1, 0)
    IN  IF prefix.read = 0 THEN NaN ELSE Num(prefix.value)

\* Number(req.params.id): NaN unless the whole string is a numeral.
Number(s) ==
    LET prefix == DigitsPrefix(s, 1, 0)
    IN  IF prefix.read = Len(s) THEN Num(prefix.value) ELSE NaN

\* The variables the store and the GET routes leave alone.
storeAside == <<profile, routeVersion, server, httpStatus, jobId, scanPc, url, results,
                completedChecks, probeIdx, scanError, unhandled, invoked, raised,
                progressCalls, netFailures, settled, responded, lateFired, posted,
                harness, tasks>>

StoreSpecInit ==
    /\ profile = "extended"
    /\ routeVersion \in RouteVersions
    /\ server = [name |-> "hardened"]
    /\ ScanIdle
    /\ HarnessIdle
    /\ TasksIdle
    /\ StoreIdle

\* storage.createScan(userId, data): it has no await, the record is set
\* during the call.
CallCreateScan(userId, body) ==
    /\ response = Null
    /\ currentScanId <= MaxScans
    /\ LET created == createScan(scans, currentScanId, userId, body)
       IN  /\ scans' = created.scans
           /\ currentScanId' = created.currentScanId
    /\ UNCHANGED <<microtasks, response, storeAside>>

\* storage.updateScanProgress(id, progress), to its `await this.getScan(id)'.
CallUpdateScanProgress(id, progress) ==
    /\ response = Null
    /\ Len(microtasks) < MaxPending
    /\ microtasks' = Append(microtasks, [kind |-> "progressWrite", id |-> id,
                                         scan |-> getScan(scans, id),
                                         progress |-> progress])
    /\ UNCHANGED <<scans, currentScanId, response, storeAside>>

\* storage.updateScanResults(id, results), to its `await this.getScan(id)'.
CallUpdateScanResults(id, res) ==
    /\ response = Null
    /\ Len(microtasks) < MaxPending
    /\ microtasks' = Append(microtasks, [kind |-> "resultsWrite", id |-> id,
                                         scan |-> getScan(scans, id),
                                         results |-> res])
    /\ UNCHANGED <<scans, currentScanId, response, storeAside>>

\* GET /api/scans
GetScans(authenticated, userId) ==
    /\ response = Null
    /\ microtasks = <<>>
    /\ LET req == [route |-> "list", authenticated |-> authenticated,
                   userId |-> userId, id |-> NaN]
       IN  response' =
             IF ~authenticated THEN [req |-> req, status |-> 401, body |-> Null]
             ELSE [req |-> req, status |-> 200, body |-> getUserScans(scans, userId)]
    /\ UNCHANGED <<scans, currentScanId, microtasks, storeAside>>

\* GET /api/scans/:id
GetScanById(authenticated, userId, idParam) ==
    /\ response = Null
    /\ microtasks = <<>>
    /\ LET id == IF routeVersion = "failedScan" THEN parseInt(idParam)
                 ELSE Number(idParam)
           req == [route |-> "byId", authenticated |-> authenticated,
                   userId |-> userId, id |-> id]
           scan == IF isNaN(id) THEN Undefined ELSE getScan(scans, id.value)
       IN  response' =
             IF ~authenticated THEN [req |-> req, status |-> 401, body |-> Null]
             ELSE IF routeVersion = "failedScan" /\ isNaN(id)
             THEN [req |-> req, status |-> 400, body |-> Null]
             ELSE IF scan = Undefined
             THEN [req |-> req, status |-> 404, body |-> Null]
             ELSE IF scan.userId # userId
             THEN [req |-> req, status |-> 403, body |-> Null]
             ELSE [req |-> req, status |-> 200, body |-> scan]
    /\ UNCHANGED <<scans, currentScanId, microtasks, storeAside>>

\* The response is sent; the server takes the next request.
ResponseSent ==
    /\ response # Null
    /\ response' = Null
    /\ UNCHANGED <<scans, currentScanId, microtasks, storeAside>>

StoreSpecNext ==
    \/ \E u \in Users : CallCreateScan(u, [hasUrl |-> TRUE, url |-> HttpsTarget])
    \/ \E id \in 1..MaxScans : CallUpdateScanProgress(id, Rat(50, 1))
    \/ \E id \in 1..MaxScans : CallUpdateScanResults(id, LegacyResults)
    \/ UpdateScanProgress
    \/ UpdateScanResults
    \/ \E a \in BOOLEAN, u \in Users : GetScans(a, u)
    \/ \E a \in BOOLEAN, u \in Users, i \in IdParams : GetScanById(a, u, i)
    \/ ResponseSent

StoreSpec == StoreSpecInit /\ [][StoreSpecNext]_vars

-----------------------------------------------------------------------------
(* Helpers for the properties *)

\* The primary boolean of a category's verdict.
PrimaryField(cat) ==
    CASE cat = "ssl" -> "valid"
      [] cat \in {"headers", "cryptography", "securityConfig", "authentication",
                  "logging"} -> "secure"
      [] OTHER -> "vulnerable"

Categories == Range(ProbeOrder(profile))

\* The aggregate holds a verdict for every registered category.
AggregateComplete(agg) ==
    /\ DOMAIN agg = Categories
    /\ \A cat \in Categories :
          /\ PrimaryField(cat) \in DOMAIN agg[cat]
          /\ agg[cat][PrimaryField(cat)] \in BOOLEAN
          /\ ListField(cat) \in DOMAIN agg[cat]

TheJob == scans[jobId]
\* What a stored results field holds.
Deref(r) == IF r = AggregateRef THEN results ELSE r
JobExists == jobId \in DOMAIN scans
InvalidTargetErrors == {InvalidUrlMsg, InvalidProtocolMsg}
Terminal == {"completed", "failed"}

-----------------------------------------------------------------------------
(* C1 *)

\* C1: failure isolation.  Whatever probes raise, every probe of the battery
\* is invoked in order (the log of invocations is the battery's prefix up to
\* the probe in flight, and the whole battery once the scan has returned),
\* and the only errors performSecurityCheck ever rejects with are the two
\* invalid-target errors, raised before any probe was invoked.
C1_FailureIsolation ==
    /\ scanPc = "probing" => invoked = SubSeq(ProbeOrder(profile), 1, probeIdx)
    /\ scanPc = "returned" => invoked = ProbeOrder(profile)
    /\ scanPc = "rejected" => scanError \in InvalidTargetErrors /\ invoked = <<>>
    /\ raised # {} => scanPc \in {"probing", "returned"}

\* A scan returned although its first probe and a later one raised.
C1_Witness ==
    /\ scanPc = "returned"
    /\ profile = "extended"
    /\ {"ssl", "integrityFailures"} \subseteq raised
    /\ invoked = ExtendedOrder

(* C2 *)

\* C2: a scan of an http or https target eventually returns, and the
\* aggregate it returns holds a verdict for every registered category.
C2_ValidScanCompletes ==
    (scanPc = "probing" /\ IsHttpScheme(url))
        ~> (scanPc = "returned" /\ AggregateComplete(results))

\* An extended scan of an https target has returned all 13 verdicts with
\* some probe's failure caught on the way.
C2_Witness ==
    /\ scanPc = "returned"
    /\ profile = "extended"
    /\ url = HttpsTarget
    /\ raised # {}
    /\ Cardinality(DOMAIN results) = 13
    /\ AggregateComplete(results)

(* C3 *)

\* C3: a target whose scheme is neither http nor https is rejected with the
\* invalid-target error before any probe is invoked and without a progress
\* call.
C3_InvalidTargetRejected ==
    \A id \in DOMAIN scans :
        ~IsHttpScheme(scans[id].url) =>
            /\ scanPc = "rejected"
            /\ scanError \in InvalidTargetErrors
            /\ invoked = <<>>
            /\ progressCalls = <<>>

(* C4 *)

\* C4: the progress callback is invoked exactly once per probe, after the
\* probe settled and before the next one starts, whether the probe succeeded
\* or its failure was caught.
C4_ProgressOncePerProbe ==
    IsHttpScheme(url) =>
        /\ scanPc = "probing" => Len(progressCalls) = probeIdx - 1
        /\ scanPc = "returned" => Len(progressCalls) = Len(ProbeOrder(profile))

(* C5 *)

\* C5: when a scan returns, the progress values it passed are strictly
\* increasing and the last of them is exactly 100.
C5_ProgressIncreasingTo100 ==
    (scanPc = "returned" /\ IsHttpScheme(url)) =>
        /\ \A i \in 1..(Len(progressCalls) - 1) :
              Less(progressCalls[i].value, progressCalls[i + 1].value)
        /\ progressCalls # <<>>
        /\ Equals(progressCalls[Len(progressCalls)].value, 100)

(* C6 *)

\* C6: every progress value is an integer in [0,100] equal to
\* round(100 * settled / total), settled being the number of probes settled
\* when it is passed.
C6_ProgressRounded ==
    \A i \in 1..Len(progressCalls) :
        LET c == progressCalls[i] IN
        /\ IsInteger(c.value)
        /\ ~Less(c.value, Rat(0, 1)) /\ ~Less(Rat(100, 1), c.value)
        /\ Equals(c.value, Round(100 * c.settled, Len(ProbeOrder(profile))))

(* C7 *)

\* C7: when performSecurityCheck rejects, the job is never marked completed,
\* and once the rejection handler is through it is marked failed.
C7_RejectedJobFailed ==
    (scanPc = "rejected" /\ JobExists) =>
        /\ TheJob.status # "completed"
        /\ (microtasks = <<>> /\ httpStatus = 201) => TheJob.status = "failed"

(* C8 *)

\* C8: once the rejection of performSecurityCheck with message m is handled,
\* the job's results are the degraded aggregate: m in ssl.issues, ssl.valid
\* false, headers, xss and sql at their defaults.
C8_DegradedAggregateStored ==
    (scanPc = "rejected" /\ JobExists /\ microtasks = <<>>) =>
        /\ TheJob.results # Null
        /\ TheJob.results.ssl = [valid |-> FALSE, issues |-> <<scanError>>]
        /\ TheJob.results.headers = LegacyResults.headers
        /\ TheJob.results.xss = LegacyResults.xss
        /\ TheJob.results.sql = LegacyResults.sql

(* C9 *)

\* C9: the aggregate stored on the failure path has every category of the
\* profile that was run.
C9_DegradedShapeMatchesProfile ==
    (scanPc = "rejected" /\ JobExists /\ TheJob.results # Null) =>
        Categories \subseteq DOMAIN TheJob.results

(* C10 *)

\* C10: a job's status only moves from running or pending to completed or
\* failed; a completed or failed record has progress 100 and results, and no
\* later write changes it.
C10_Step ==
    \A id \in DOMAIN scans :
        /\ id \in DOMAIN scans'
        /\ scans'[id].status # scans[id].status =>
              /\ scans[id].status \in {"pending", "running"}
              /\ scans'[id].status \in Terminal
        /\ scans'[id].status \in Terminal =>
              /\ Equals(scans'[id].progress, 100)
              /\ scans'[id].results # Null
        /\ scans[id].status \in Terminal => scans'[id] = scans[id]

C10_StatusTransitions == [][C10_Step]_vars

\* The job completed after progress writes were issued for it, and every
\* queued write has run.
C10_Witness ==
    /\ JobExists
    /\ TheJob.status = "completed"
    /\ Len(progressCalls) >= 2
    /\ raised # {}
    /\ microtasks = <<>>

(* C11 *)

C11_Order ==
    <<"ssl", "headers", "xss", "sql", "accessControl", "cryptography",
      "insecureDesign", "securityConfig", "vulnerableComponents", "authentication",
      "integrityFailures", "logging", "ssrf">>

\* C11: the probes of a scan are invoked in the fixed order SSL, Headers,
\* XSS, SQL, AccessControl, Cryptography, InsecureDesign, SecurityConfig,
\* VulnerableComponents, Authentication, IntegrityFailures, Logging, SSRF;
\* a probe is invoked only when all probes before it have settled, so at most
\* one probe is in flight.
C11_SequentialFixedOrder ==
    /\ Len(invoked) <= Len(C11_Order)
    /\ invoked = SubSeq(C11_Order, 1, Len(invoked))
    /\ Len(settled) <= Len(invoked)
    /\ settled = SubSeq(invoked, 1, Len(settled))
    /\ Len(invoked) - Len(settled) <= 1

\* The last probe of the extended battery is in flight, the 12 before it
\* have settled, some of them by raising.
C11_Witness ==
    /\ profile = "extended"
    /\ scanPc = "probing"
    /\ Len(invoked) = 13
    /\ Len(settled) = 12
    /\ raised # {}

(* C12 *)

\* A verdict as the claims compare it: the primary boolean and the list.
Verdict(cat, slot) == <<slot[PrimaryField(cat)], slot[ListField(cat)]>>

C12_Step ==
    \A cat \in (raised' \ raised) :
        LET f == ListField(cat) IN
        /\ \E msg \in {ProtocolNotSupportedMsg, FetchFailedMsg} :
              results'[cat][f] = Append(results[cat][f], <<ErrorPrefix(cat), msg>>)
        /\ Len(results'[cat][f]) = 1
        /\ results[cat][PrimaryField(cat)] = FALSE
        /\ results'[cat][PrimaryField(cat)] = FALSE
        /\ \A other \in (DOMAIN results) \ {cat} :
              Verdict(other, results'[other]) = Verdict(other, results[other])

\* C12: when a probe raises to the orchestrator, exactly one entry
\* "<Category> Error: <message>" is appended to the list field of its
\* category, the primary boolean of the category stays false, and the verdict
\* of no other category changes.
C12_CaughtErrorEntry == [][C12_Step]_vars

\* checkCryptography's fetch failed during an extended scan: its slot holds
\* the one error entry and secure is false.
C12_Witness ==
    /\ profile = "extended"
    /\ "cryptography" \in raised
    /\ results.cryptography.issues = <<<<"Cryptography Error:", FetchFailedMsg>>>>
    /\ results.cryptography.secure = FALSE

(* C13 *)

C13_Step ==
    (scanPc = "probing" /\ netFailures' = netFailures + 1) =>
        LET cat == ProbeOrder(profile)[probeIdx]
            f == ListField(cat)
        IN  /\ results'[cat][PrimaryField(cat)] = FALSE
            /\ Len(results'[cat][f]) = 1
            /\ results'[cat][f][1][1] = ErrorPrefix(cat)
            /\ \A other \in (DOMAIN results) \ {cat} :
                  Verdict(other, results'[other]) = Verdict(other, results[other])

\* C13: when every network call of a probe fails, the probe's category ends
\* with its primary boolean false and exactly one synthetic error entry in
\* its list, and no other category's verdict is touched.
C13_NetworkFailureContained == [][C13_Step]_vars

(* C14 *)

C14_Position(h) ==
    CASE h = "strict-transport-security" -> 1
      [] h = "x-content-type-options" -> 2
      [] h = "x-frame-options" -> 3
      [] OTHER -> 4

\* C14: after checkHeaders got a response, missing lists exactly the absent
\* ones of strict-transport-security, x-content-type-options,
\* x-frame-options, content-security-policy, in that order, and secure is
\* true exactly when missing is empty; all four present gives secure and
\* no entry, only x-frame-options absent gives missing = [x-frame-options].
C14_HeadersVerdict ==
    (/\ hProbe = "headers" /\ hUrl = HttpsTarget /\ hNet = "ok"
     /\ hServer.name = "custom" /\ hVerdicts # <<>> /\ hPc = "idle") =>
        LET present == hServer.headers
            missing == hSlot.missing
        IN  /\ Range(missing) = HeaderNames \ present
            /\ \A i, j \in 1..Len(missing) :
                  i < j => C14_Position(missing[i]) < C14_Position(missing[j])
            /\ hSlot.secure <=> (missing = <<>>)
            /\ present = HeaderNames => hSlot.secure /\ missing = <<>>
            /\ present = HeaderNames \ {"x-frame-options"} =>
                  ~hSlot.secure /\ missing = <<"x-frame-options">>

\* checkHeaders ran on a response that lacks x-frame-options only.
C14_Witness ==
    /\ hProbe = "headers" /\ hUrl = HttpsTarget /\ hNet = "ok"
    /\ hServer.name = "custom"
    /\ hServer.headers = HeaderNames \ {"x-frame-options"}
    /\ hPc = "idle"
    /\ Len(hVerdicts) >= 1
    /\ hSlot.missing = <<"x-frame-options">>
    /\ ~hSlot.secure

(* C15 *)

C15_Substrings ==
    {PatSqlSyntax, PatMysqlError, PatPostgresqlError, PatOra, PatSqlServerError}

\* text contains pattern, letter case ignored
C15_ContainsIgnoringCase(text, pattern) ==
    includes(toLowerCase(text), toLowerCase(pattern))

\* C15: after checkSQLInjection, an endpoint of /login, /search, /profile is
\* in endpoints exactly when its response body contains, letter case
\* ignored, one of 'sql syntax', 'mysql error', 'postgresql error', 'ORA-',
\* 'SQL Server error'; vulnerable is true exactly when endpoints is not empty.
C15_SqlVerdict ==
    (/\ hProbe = "sql" /\ hNet = "ok" /\ hServer.name = "custom"
     /\ hVerdicts # <<>> /\ hPc = "idle") =>
        /\ \A e \in SqlEndpoints :
              (e \in Range(hSlot.endpoints)) <=>
                  /\ e \notin hServer.down
                  /\ \E t \in hServer.body[e], pat \in C15_Substrings :
                        C15_ContainsIgnoringCase(t, pat)
        /\ hSlot.vulnerable <=> (hSlot.endpoints # <<>>)

(* C16 *)

\* C16: after checkAccessControl, an issue names a path of /admin,
\* /api/users, /dashboard, /settings exactly when the GET for it was answered
\* with a status other than 401 and 403; a request that failed gives no
\* issue; vulnerable is true exactly when there is an issue.
C16_AccessControlVerdict ==
    (hProbe = "accessControl" /\ hVerdicts # <<>> /\ hPc = "idle") =>
        LET issues == hSlot.issues
            named == {issues[i][2] : i \in 1..Len(issues)}
        IN  /\ hSlot.vulnerable <=> (Len(issues) > 0)
            /\ Len(issues) = Cardinality(named)
            /\ hNet = "fail" => issues = <<>>
            /\ (hNet = "ok" /\ hServer.name = "custom") =>
                  \A p \in SensitivePaths :
                      (p \in named) <=>
                          /\ p \notin hServer.down
                          /\ hServer.status[p] \notin {401, 403}

\* checkAccessControl ran against a target that serves /admin, refuses
\* /api/users with 403 and /dashboard with 401, and whose /settings request
\* failed: the one issue names /admin.
C16_Witness ==
    /\ hProbe = "accessControl" /\ hNet = "ok" /\ hServer.name = "custom"
    /\ hServer.status["/admin"] = 200
    /\ hServer.status["/api/users"] = 403
    /\ hServer.status["/dashboard"] = 401
    /\ hServer.status["/settings"] = 200
    /\ hServer.down = {"/settings"}
    /\ hPc = "idle"
    /\ Len(hVerdicts) >= 1
    /\ hSlot.vulnerable
    /\ Len(hSlot.issues) = 1
    /\ hSlot.issues[1][2] = "/admin"

(* C17 *)

\* C17: a probe called twice with the same slot against an unchanged target
\* leaves the same verdict after the second call as after the first.
C17_Idempotent ==
    Len(hVerdicts) >= 2 =>
        Verdict(hProbe, hVerdicts[2].slot) = Verdict(hProbe, hVerdicts[1].slot)

(* C18 *)

C18_Lists == {"issues", "missing", "endpoints"}

C18_Insecure(cat, slot) ==
    IF PrimaryField(cat) = "vulnerable" THEN slot.vulnerable
    ELSE ~slot[PrimaryField(cat)]

\* C18: in every aggregate stored in a job record, a category whose primary
\* boolean says insecure (valid or secure false, vulnerable true) has an
\* entry in one of issues, missing, endpoints.
C18_SelfConsistent ==
    \A id \in DOMAIN scans :
        scans[id].results # Null =>
            LET agg == Deref(scans[id].results) IN
            \A cat \in Range(ExtendedOrder) \cap DOMAIN agg :
                C18_Insecure(cat, agg[cat]) =>
                    \E f \in C18_Lists \cap DOMAIN agg[cat] : agg[cat][f] # <<>>

(* C19 *)

\* C19: when the scan starts every category of the aggregate has its
\* primary boolean false and its list empty, and from then until
\* performSecurityCheck returns the aggregate has exactly the categories of
\* the battery.
C19_AggregateShape ==
    /\ (scanPc = "probing" /\ settled = <<>>) =>
          \A cat \in Categories : Verdict(cat, results[cat]) = <<FALSE, <<>> >>
    /\ scanPc \in {"probing", "returned"} => DOMAIN results = Categories

\* An extended scan has returned, with verdicts that are no longer the
\* defaults (SSL valid, cryptography issues), and the aggregate has its 13
\* categories.
C19_Witness ==
    /\ profile = "extended"
    /\ scanPc = "returned"
    /\ Cardinality(DOMAIN results) = 13
    /\ results.ssl.valid
    /\ results.cryptography.issues # <<>>

(* C20 *)

C20_Step ==
    scanPc \in {"probing", "returned"} =>
        /\ \A i \in 1..Len(settled) : results'[settled[i]] = results[settled[i]]
        /\ scanPc = "returned" => results' = results

\* C20: the slot of a probe that has settled is never written again, and
\* after performSecurityCheck has returned the aggregate is not modified.
C20_SettledSlotsFrozen == [][C20_Step]_vars

(* C22 *)

\* C22: when a probe is at its first network call, its slot holds its
\* primary boolean at the default and empty lists, whatever the slot held
\* when the probe was called.
C22_ProbePreInitialises ==
    hPc = "awaiting" => Verdict(hProbe, hSlot) = <<FALSE, <<>> >>

(* C23 *)

\* checkXSS: testUrl.searchParams.set('q', testPayloads[0])
C23_SentPayload == XssPayload1

\* C23: after checkXSS, an endpoint of /search, /comment, /feedback is in
\* endpoints exactly when the body of its response contains the payload
\* that was sent; vulnerable is true exactly when endpoints is not empty.
C23_XssVerdict ==
    (/\ hProbe = "xss" /\ hNet = "ok" /\ hServer.name = "custom"
     /\ hVerdicts # <<>> /\ hPc = "idle") =>
        /\ \A e \in XssEndpoints :
              (e \in Range(hSlot.endpoints)) <=>
                  /\ e \notin hServer.down
                  /\ \E t \in hServer.body[e] : includes(t, C23_SentPayload)
        /\ hSlot.vulnerable <=> (hSlot.endpoints # <<>>)

(* C24 *)

\* C24: checkSSRF posts each of its 4 test URLs to each of its 4 endpoints;
\* every request answered with a status other than 400 and 403 adds an entry
\* for its endpoint, a request that failed adds none; vulnerable is true
\* exactly when some request was so answered, and exactly when endpoints is
\* not empty.
C24_SsrfVerdict ==
    (hProbe = "ssrf" /\ hVerdicts # <<>> /\ hPc = "idle") =>
        /\ hSlot.vulnerable <=> (hSlot.endpoints # <<>>)
        /\ hNet = "fail" => hSlot.endpoints = <<>>
        /\ (hNet = "ok" /\ hServer.name = "custom") =>
              LET accepting == {e \in SsrfEndpoints :
                                   /\ e \notin hServer.down
                                   /\ hServer.status[e] \notin {400, 403}}
                  Count(e) == Cardinality({i \in 1..Len(hSlot.endpoints) :
                                              hSlot.endpoints[i][1] = e})
              IN  /\ hSlot.vulnerable <=> (accepting # {})
                  /\ \A e \in SsrfEndpoints :
                        Count(e) = IF e \in accepting THEN 4 ELSE 0
                  /\ Len(hSlot.endpoints) = 4 * Cardinality(accepting)

\* checkSSRF ran against a target whose /api/fetch answers 200 and /api/import
\* 500, whose /api/proxy answers 403, and whose /api/webhook request failed:
\* 8 entries.
C24_Witness ==
    /\ hProbe = "ssrf" /\ hNet = "ok" /\ hServer.name = "custom"
    /\ hServer.status["/api/fetch"] = 200
    /\ hServer.status["/api/import"] = 500
    /\ hServer.status["/api/proxy"] = 403
    /\ hServer.status["/api/webhook"] = 200
    /\ hServer.down = {"/api/webhook"}
    /\ hPc = "idle"
    /\ Len(hVerdicts) >= 1
    /\ hSlot.vulnerable
    /\ Len(hSlot.endpoints) = 8

(* C25 *)

\* C25: every job record created by POST /api/scans eventually has the
\* status completed or failed.
C25_JobReachesTerminal == JobExists ~> (JobExists /\ TheJob.status \in Terminal)

(* C26 *)

\* C26: no step lowers the progress of a job record; progress is always in
\* 0..100; a completed record has progress 100 and results that are not null.
C26_Step ==
    \A id \in DOMAIN scans :
        /\ id \in DOMAIN scans'
        /\ ~Less(scans'[id].progress, scans[id].progress)
        /\ ~Less(scans'[id].progress, Rat(0, 1))
        /\ ~Less(Rat(100, 1), scans'[id].progress)
        /\ scans'[id].status = "completed" =>
              (scans'[id].progress = Rat(100, 1) /\ scans'[id].results # Null)

C26_ProgressMonotone == [][C26_Step]_vars

\* The last fire-and-forget progress write of an extended scan has run
\* before the result write: progress 100 on a running record.
C26_Witness ==
    /\ JobExists
    /\ profile = "extended"
    /\ TheJob.status = "running"
    /\ ~Less(TheJob.progress, Rat(100, 1))
    /\ microtasks # <<>>

(* C28 *)

C28_Invalid(body) == ~body.hasUrl \/ ~body.url.parses

\* C28: a POST /api/scans of an unauthenticated requester answers 401 and
\* one with a body that has no url or a url that is not a URL answers 400,
\* and neither changes the store, the id counter or the scan state; any
\* other POST answers 201 and adds one record, with status running, progress
\* 0 and results null; no other step adds a record.
C28_Step ==
    /\ (httpStatus = 0 /\ httpStatus' # 0) =>
          /\ posted' # Null
          /\ httpStatus' = (IF ~posted'.authenticated THEN 401
                            ELSE IF C28_Invalid(posted'.body) THEN 400 ELSE 201)
          /\ httpStatus' \in {400, 401} =>
                UNCHANGED <<scans, currentScanId, jobId, scanPc, url, results,
                            probeIdx, microtasks, invoked, progressCalls>>
          /\ httpStatus' = 201 =>
                /\ DOMAIN scans' = DOMAIN scans \cup {currentScanId}
                /\ currentScanId \notin DOMAIN scans
                /\ scans'[currentScanId].status = "running"
                /\ scans'[currentScanId].progress = Rat(0, 1)
                /\ scans'[currentScanId].results = Null
                /\ scans'[currentScanId].userId = posted'.userId
                /\ scans'[currentScanId].url = posted'.body.url
    /\ DOMAIN scans' # DOMAIN scans => (httpStatus = 0 /\ httpStatus' = 201)

C28_RejectedPostHasNoEffect == [][C28_Step]_vars

\* An authenticated POST whose url is not a URL was answered 400 and left
\* the store empty.
C28_Witness ==
    /\ posted # Null
    /\ posted.authenticated
    /\ posted.body.hasUrl
    /\ ~posted.body.url.parses
    /\ httpStatus = 400
    /\ scans = <<>>
    /\ currentScanId = 1

(* C29 *)

\* C29: the records are those of the ids 1 .. currentScanId - 1, each stored
\* under its own id; a createScan takes the next id, one more than the
\* last, and leaves every existing record as it was.
C29_Step ==
    /\ DOMAIN scans' = 1..(currentScanId' - 1)
    /\ \A id \in DOMAIN scans' : scans'[id].id = id
    /\ currentScanId' >= currentScanId
    /\ (currentScanId' # currentScanId \/ DOMAIN scans' # DOMAIN scans) =>
          /\ currentScanId' = currentScanId + 1
          /\ currentScanId \notin DOMAIN scans
          /\ DOMAIN scans' = DOMAIN scans \cup {currentScanId}
          /\ \A id \in DOMAIN scans : scans'[id] = scans[id]

C29_IdsDistinctIncreasing == [][C29_Step]_vars

\* Two createScan calls have run, the second after the first record was
\* completed: the first record is still completed.
C29_Witness ==
    /\ currentScanId = 3
    /\ DOMAIN scans = {1, 2}
    /\ scans[1].status = "completed"
    /\ scans[2].status = "running"
    /\ scans[2].progress = Rat(0, 1)

(* C30 *)

\* C30: the write of updateScanProgress(id, p) puts back the record the call
\* read with only progress replaced, the write of updateScanResults(id, r)
\* puts it back with only status, progress and results replaced; neither
\* changes another record or adds one; a call that read no record under id
\* leaves the store as it is.
C30_Step ==
    (/\ microtasks # <<>>
     /\ microtasks' = Tail(microtasks)
     /\ Head(microtasks).kind \in {"progressWrite", "resultsWrite"}) =>
        LET call == Head(microtasks)
            old == call.scan
            new == scans'[call.id]
        IN  IF old = Undefined THEN scans' = scans
            ELSE /\ DOMAIN scans' = DOMAIN scans
                 /\ \A k \in DOMAIN scans \ {call.id} : scans'[k] = scans[k]
                 /\ new.id = old.id /\ new.userId = old.userId
                 /\ new.url = old.url /\ new.createdAt = old.createdAt
                 /\ call.kind = "progressWrite" =>
                       /\ new.status = old.status
                       /\ new.results = old.results
                       /\ new.progress = call.progress
                 /\ call.kind = "resultsWrite" => new.results = call.results

C27_Owned(u) == {scans[id] : id \in {k \in DOMAIN scans : scans[k].userId = u}}

\* What both GET routes do alike: 401 and nothing to the unauthenticated;
\* GET /api/scans answers with exactly the requester's records.
C27_Common ==
    /\ ~response.req.authenticated => (response.status = 401 /\ response.body = Null)
    /\ (response.req.authenticated /\ response.req.route = "list") =>
          /\ response.status = 200
          /\ Range(response.body) = C27_Owned(response.req.userId)
          /\ Len(response.body) = Cardinality(C27_Owned(response.req.userId))

\* The answer of GET /api/scans/:id for the record r the id names.
C27_ById(r) ==
    IF r = Undefined THEN response.status = 404 /\ response.body = Null
    ELSE IF r.userId # response.req.userId
    THEN response.status = 403 /\ response.body = Null
    ELSE response.status = 200 /\ response.body = r

C21_Step ==
    /\ \A id \in DOMAIN scans :
          scans'[id] # scans[id] =>
              /\ microtasks # <<>>
              /\ Head(microtasks).id = id
              /\ Head(microtasks).kind \in {"progressWrite", "resultsWrite"}
    /\ \A j \in DOMAIN tasks' :
          tasks'[j].pc = "returned" =>
              LET t == tasks'[j]
                  solo == SoloRun(profile, ScanTargets[j], t.server, t.net)
              IN  /\ t.results = solo.results
                  /\ t.progress = solo.progress
                  /\ (~\E i \in 1..Len(microtasks') : microtasks'[i].id = j) =>
                        /\ scans'[j].status = "completed"
                        /\ scans'[j].results = TaskRef(j)
                        /\ scans'[j].progress = Rat(100, 1)

C21_ScansIndependent == [][C21_Step]_vars

\* The first scan has returned and its record is completed while the
\* second, started against another kind of target, is between two probes
\* with its record running.
C21_Witness ==
    /\ DOMAIN tasks = {1, 2}
    /\ tasks[1].pc = "returned"
    /\ tasks[2].pc = "probing"
    /\ tasks[2].probeIdx > 1
    /\ tasks[1].server # tasks[2].server
    /\ tasks[1].results # tasks[2].results
    /\ scans[1].status = "completed"
    /\ scans[2].status = "running"
    /\ Less(Rat(0, 1), scans[2].progress)

=============================================================================
